---- MODULE Spec2Model ----
(***************************************************************************)
(* Model of the Telegram-configs pipeline (src/app.py and its older copy   *)
(* src/app.py.py): channel pages are fetched, the proxy links found in     *)
(* them are merged into ServerByType/<protocol>.txt, an extraction report  *)
(* is written after every channel, and the stored links are then           *)
(* classified by country into ServerByRegion/<country>.txt.                *)
(*                                                                         *)
(* Text is modelled as a sequence of chunks.  A chunk is either one of the *)
(* characters the code looks at ("@", ":", the line break, a blank) or an  *)
(* opaque run of other characters (a protocol name, a host name, a port).  *)
(* A chunk is the string of its characters, so that a text cut after any   *)
(* number of characters is again a sequence of chunks.  Files are the      *)
(* chunk sequences of their content.                                       *)
(*                                                                         *)
(* The environment explored: a fetch fails or returns a page; an append to *)
(* a protocol file or to a region file succeeds or raises, the file then   *)
(* keeping the characters written before the error (at most MaxFaults      *)
(* appends raise in one behaviour); the channel list and the GeoLite2      *)
(* database can be opened or not.  The reads of existing files and the     *)
(* writes of the channel list, of the report, of country_count.log and of  *)
(* invalid_links.txt are taken to succeed.                                 *)
(*                                                                         *)
(* Spec follows consecutive runs of the program, SpecIp the function       *)
(* extract_server_ip on its own, SpecConc two runs of app.py that execute  *)
(* at the same time on the same folders.                                   *)
(***************************************************************************)
EXTENDS Integers, Sequences, FiniteSets, TLC

\* ------------------------------------------------------------------ bounds

\* Number of consecutive runs of the program that are explored.
MaxRuns == 2
\* Number of channels in telegram_channels.txt.
NumChannels == 2
\* Largest number of message tags on one fetched channel page.
MaxTags == 2
\* Longest entry string given to extract_server_ip on its own (SpecIp).
MaxLen == 5
\* Largest number looked for when a report line is read back.
MaxCount == 20
\* Largest number of appends that raise an error in one behaviour.
MaxFaults == 1

\* ------------------------------------------------------------ text helpers

NL == "\n"
Whitespace == {" ", NL}

None == [tag |-> "None"]
Some(v) == [tag |-> "str", val |-> v]

Last(s) == s[Len(s)]
Front(s) == SubSeq(s, 1, Len(s) - 1)

Range(s) == {s[i] : i \in 1..Len(s)}

Perms(S) == {p \in [1..Cardinality(S) -> S] : Range(p) = S}

RECURSIVE SumSeq(_)
SumSeq(s) == IF s = <<>> THEN 0 ELSE Head(s) + SumSeq(Tail(s))

\* str.split(sep): the pieces of s between the occurrences of sep.
RECURSIVE Split(_, _)
Split(s, sep) ==
    IF \A i \in 1..Len(s) : s[i] # sep
    THEN <<s>>
    ELSE LET i == CHOOSE j \in 1..Len(s) :
                      s[j] = sep /\ \A h \in 1..(j - 1) : s[h] # sep
         IN  <<SubSeq(s, 1, i - 1)>> \o Split(SubSeq(s, i + 1, Len(s)), sep)

\* str.splitlines() and file.readlines(): the lines of a text; a final line
\* break ends the last line and opens no empty one.
SplitLines(text) ==
    LET parts == Split(text, NL)
    IN  IF Last(parts) = <<>> THEN Front(parts) ELSE parts

\* str.strip(): leading and trailing white space removed.
RECURSIVE LStrip(_)
LStrip(s) == IF s # <<>> /\ Head(s) \in Whitespace THEN LStrip(Tail(s)) ELSE s
RECURSIVE RStrip(_)
RStrip(s) == IF s # <<>> /\ Last(s) \in Whitespace THEN RStrip(Front(s)) ELSE s
Strip(s) == RStrip(LStrip(s))

\* What f.write(server + '\n') for every server of a list adds to a file.
RECURSIVE WriteLines(_)
WriteLines(servers) ==
    IF servers = <<>> THEN <<>>
    ELSE Head(servers) \o <<NL>> \o WriteLines(Tail(servers))

\* The number of characters of a text; a long text is summed by halves.
RECURSIVE Width(_)
Width(text) ==
    IF Len(text) <= 16 THEN SumSeq([i \in 1..Len(text) |-> Len(text[i])])
    ELSE Width(SubSeq(text, 1, Len(text) \div 2))
         + Width(SubSeq(text, Len(text) \div 2 + 1, Len(text)))

\* What a text holds after its first n characters, found by halves.
RECURSIVE DropChars(_, _)
DropChars(text, n) ==
    IF n <= 0 \/ Len(text) = 0 THEN text
    ELSE IF Len(text) = 1
    THEN IF Len(text[1]) <= n THEN <<>>
         ELSE <<SubSeq(text[1], n + 1, Len(text[1]))>>
    ELSE LET front == SubSeq(text, 1, Len(text) \div 2)
             back == SubSeq(text, Len(text) \div 2 + 1, Len(text))
             width == Width(front)
         IN  IF width <= n THEN DropChars(back, n - width)
             ELSE DropChars(front, n) \o back

\* A file opened with mode 'w' is emptied at the open and written from its
\* start when it is closed: what it then holds, when `current` is what it held
\* just before (empty, unless another process wrote to it since the open).
WrittenOver(text, current) == text \o DropChars(current, Width(text))

\* sorted(items, key=count, reverse=True): a stable sort, larger counts first.
RECURSIVE InsertDesc(_, _)
InsertDesc(sorted, item) ==
    IF sorted = <<>> THEN <<item>>
    ELSE IF Head(sorted).count >= item.count
         THEN <<Head(sorted)>> \o InsertDesc(Tail(sorted), item)
         ELSE <<item>> \o sorted
RECURSIVE SortDesc(_)
SortDesc(items) ==
    IF items = <<>> THEN <<>>
    ELSE InsertDesc(SortDesc(Front(items)), Last(items))

\* ------------------------------------------------------- the configuration

KeyOrder == <<"vmess", "vless", "ss", "trojan", "tuic">>
Protocols == Range(KeyOrder)
Scheme == [k \in Protocols |-> <<k, ":", "//">>]
KeyIndex(k) == CHOOSE i \in 1..Len(KeyOrder) : KeyOrder[i] = k

\* text.startswith(f"{key}://")
StartsWith(text, key) ==
    Len(text) >= Len(Scheme[key]) /\ SubSeq(text, 1, Len(Scheme[key])) = Scheme[key]

\* The message texts a channel page can hold; the last one is no proxy link.
TagTexts ==
    { <<"vmess", ":", "//", "u", "@", "h1", ":", "443">>,
      <<"vmess", ":", "//", "x", NL, "y", "@", "h2", ":", "1">>,
      <<"vless", ":", "//", "u", "@", "h3", ":", "443">>,
      <<"hello">> }
Pages == {p \in SUBSET TagTexts : Cardinality(p) <= MaxTags}

\* The GeoLite2 database: reader.country(ip).country.name, or no record.
GeoDb(ip) ==
    CASE ip = <<"h1">> -> Some("Germany")
      [] ip = <<"h3">> -> Some("France")
      [] OTHER -> None
Regions == {"Germany", "France"}

\* The channels, named by their numbers, and the list telegram_urls of a run
\* that found every one of them in telegram_channels.txt.
Channels == 1..NumChannels
telegram_urls == [i \in 1..NumChannels |-> i]

\* ---------------------------------------------------------- pure functions

\* extract_server_ip: the text between the first '@' and the next ':' of the
\* piece that follows it, when that piece (which ends at the second '@') has
\* a ':'.
extract_server_ip(cfg) ==
    LET parts == Split(cfg, "@")
    IN  IF Len(parts) > 1
        THEN LET ip_and_port == Split(parts[2], ":")
             IN  IF Len(ip_and_port) > 1 THEN Some(ip_and_port[1]) ELSE None
        ELSE None

\* `if ip:` -- None and the empty string are both false.
Truthy(ip) == ip.tag = "str" /\ ip.val # <<>>

\* get_country_from_ip
get_country_from_ip(ip) ==
    LET r == GeoDb(ip) IN IF r.tag = "str" THEN r.val ELSE "Unknown"

\* get_v2ray_links on a fetched page: every message text goes to the first
\* protocol whose scheme it starts with; other texts are dropped.
ConfigTypes(page) ==
    [k \in Protocols |->
        {t \in page : /\ StartsWith(t, k)
                      /\ \A j \in 1..(KeyIndex(k) - 1) : ~StartsWith(t, KeyOrder[j])}]

\* get_v2ray_links: None when the request raises (transport error, timeout,
\* non-2xx status), the per-protocol lists otherwise.
get_v2ray_links(fetch) ==
    IF fetch.ok THEN [tag |-> "dict", by |-> ConfigTypes(fetch.page)] ELSE None

FetchOutcomes == {[ok |-> FALSE, page |-> {}]} \cup {[ok |-> TRUE, page |-> p] : p \in Pages}

\* An `if configs:` that took a dict of five empty lists for false.
FetchedWithEntries(cfg) == cfg.tag = "dict" /\ \E k \in Protocols : cfg.by[k] # {}

\* `if configs:` -- None is false, the five-key dict is true.
Fetched(cfg) == cfg.tag = "dict"

\* new_servers = set(values) - existing_servers[key]
NewServers(values, existing) == values \ existing

\* filtered_servers: the members of new_servers not in existing_servers[key].
FilteredServers(new_servers, existing) == {s \in new_servers : s \notin existing}

\* What is left of a text whose write was cut short: the text up to any
\* character but the last.
Truncations(text) ==
    UNION {{SubSeq(text, 1, i)
                \o (IF j = 0 THEN <<>> ELSE <<SubSeq(text[i + 1], 1, j)>>) :
               j \in 0..(Len(text[i + 1]) - 1)} : i \in 0..(Len(text) - 1)}

\* The outcomes of the append to <key>.txt.  The servers are written, in the
\* iteration order of the set, to the buffer of the file, which goes to disk
\* when the `with` block is left: either the whole text is appended, or an
\* error is raised after the characters that fitted, none when the file
\* could not be opened.
KeyWrites(filtered) ==
    IF filtered = {}
    THEN {[ok |-> TRUE, out |-> <<>>]}
    ELSE {[ok |-> TRUE, out |-> WriteLines(p)] : p \in Perms(filtered)}
         \cup
         {[ok |-> FALSE, out |-> t] :
             t \in UNION {Truncations(WriteLines(p)) : p \in Perms(filtered)}}

\* The number of appends of a channel step that raised.
Raised(w) == Cardinality({i \in 1..Len(w) : ~w[i].ok})

RECURSIVE WriteChoices(_, _)
WriteChoices(i, filtered) ==
    IF i > Len(KeyOrder) THEN {<<>>}
    ELSE {<<o>> \o rest : o \in KeyWrites(filtered[KeyOrder[i]]),
                          rest \in WriteChoices(i + 1, filtered)}

\* A merge loop that a write error ends: the keys after the failing one are
\* not reached.
KeysMergedUntilError(w) ==
    {k \in Protocols : \A j \in 1..(KeyIndex(k) - 1) : w[j].ok}

\* The keys whose loop body runs in extract_and_update_channel: the write
\* error of one key is caught inside the loop, so every key is reached.
KeysMerged(w) == Protocols

\* A channel whose failed fetch is not counted.
ChannelOutcomeUncounted(cfg) ==
    IF Fetched(cfg) THEN [successful |-> 1, failed |-> 0]
    ELSE [successful |-> 0, failed |-> 0]

\* successful_new, failed_new of one channel.
ChannelOutcome(cfg) ==
    IF Fetched(cfg) THEN [successful |-> 1, failed |-> 0]
    ELSE [successful |-> 0, failed |-> 1]

\* update_channel_stats on the ordered dict channel_stats.
update_channel_stats(stats, url, n, successful, failed) ==
    IF \E i \in 1..Len(stats) : stats[i].url = url
    THEN [i \in 1..Len(stats) |->
            IF stats[i].url = url
            THEN [url |-> url,
                  total_servers |-> stats[i].total_servers + n,
                  count |-> stats[i].count + n,
                  successful |-> stats[i].successful + successful,
                  failed |-> stats[i].failed + failed]
            ELSE stats[i]]
    ELSE Append(stats, [url |-> url, total_servers |-> n, count |-> n,
                        successful |-> successful, failed |-> failed])

\* count_servers_in_files: len(f.readlines()) of every protocol file.
count_servers_in_files(files) == [k \in Protocols |-> Len(SplitLines(files[k]))]

\* load_existing_servers: set(f.read().splitlines()) of every protocol file.
load_existing_servers(files) == [k \in Protocols |-> Range(SplitLines(files[k]))]

ZeroCounts == [k \in Protocols |-> 0]
NoLog == [tag |-> "None"]

\* --------------------------------------------------- the extraction report

\* Field widths of the format specifications of save_updated_data.
KeyField == 12
ChannelField == 35
CountField == 6
FlagField == 4

\* key.upper() and str.lower() on the chunks that are protocol names.
Upper == [vmess |-> "VMESS", vless |-> "VLESS", ss |-> "SS", trojan |-> "TROJAN",
          tuic |-> "TUIC"]
LowerChunk(c) == IF \E k \in Protocols : Upper[k] = c
                 THEN CHOOSE k \in Protocols : Upper[k] = c
                 ELSE c
Lower(text) == [i \in 1..Len(text) |-> LowerChunk(text[i])]

\* f"{text:<field}": the text, filled with blanks on the right up to field
\* characters.
Pad(n) == [i \in 1..n |-> " "]
LJust(text, field) == text \o Pad(field - Width(text))

\* str(n), and int(text): the number a text spells once its surrounding white
\* space is removed, or a ValueError.
Str(n) == <<ToString(n)>>
ParseInt(text) ==
    LET t == Strip(text)
    IN  IF Len(t) = 1 /\ \E n \in 0..MaxCount : ToString(n) = t[1]
        THEN [ok |-> TRUE, val |-> CHOOSE n \in 0..MaxCount : ToString(n) = t[1]]
        ELSE [ok |-> FALSE, val |-> 0]

\* str.split(sep) for a separator of several characters.
RECURSIVE SplitOn(_, _)
SplitOn(s, sep) ==
    LET n == Len(sep)
        hits == {i \in 1..(Len(s) - n + 1) : SubSeq(s, i, i + n - 1) = sep}
    IN  IF hits = {} THEN <<s>>
        ELSE LET i == CHOOSE j \in hits : \A h \in hits : j <= h
             IN  <<SubSeq(s, 1, i - 1)>> \o SplitOn(SubSeq(s, i + n, Len(s)), sep)

\* str.split(): the pieces of s between runs of white space.
RECURSIVE Tokens(_)
Tokens(s) ==
    LET t == LStrip(s)
    IN  IF t = <<>> THEN <<>>
        ELSE LET ends == {i \in 1..Len(t) : t[i] \in Whitespace}
                 n == IF ends = {} THEN Len(t) + 1
                      ELSE CHOOSE j \in ends : \A h \in ends : j <= h
             IN  <<SubSeq(t, 1, n - 1)>> \o Tokens(SubSeq(t, n, Len(t)))

\* The channel url as the report shows it.
UrlText(url) == <<"https://t.me/s/c" \o ToString(url)>>

\* The section headers save_updated_data writes, and the one for the channel
\* statistics that read_previous_data compares with.
Mark == "==="
SectionTypeNew == <<Mark, " ", "Server Type Summary New", " ", Mark>>
SectionTypeAll == <<Mark, " ", "Server Type Summary All", " ", Mark>>
SectionSummaryNew == <<Mark, " ", "Extraction Summary New", " ", Mark>>
SectionSummaryAll == <<Mark, " ", "Extraction Summary All", " ", Mark>>
SectionChannelsWritten ==
    <<Mark, " ", "Channel Statistics", " ", "==================", " ">>
SectionChannelsRead == <<Mark, " ", "Channel Statistics", " ", Mark>>
ChannelsLegend ==
    <<"Telegram Channels Names============Total Servers", " ", Mark, " ",
      "New Servers", " ", Mark, " ", "Successful", " ", Mark, " ", "Failed", " ">>

\* f"{key.upper():<12} Servers: {count}\n" for every key.
RECURSIVE TypeLines(_, _)
TypeLines(counts, keys) ==
    IF keys = <<>> THEN <<>>
    ELSE LJust(<<Upper[Head(keys)]>>, KeyField)
             \o <<" ", "Servers:", " ">> \o Str(counts[Head(keys)]) \o <<NL>>
             \o TypeLines(counts, Tail(keys))

\* The three lines of an extraction summary.
SummaryLines(total, successful, failed) ==
    <<"Total Extracted Servers", ":", " ">> \o Str(total) \o <<NL>>
    \o <<"Successful Channels", ":">> \o Pad(5) \o Str(successful) \o <<NL>>
    \o <<"Failed Channels", ":">> \o Pad(9) \o Str(failed) \o <<NL>>

\* The line of one channel in the channel statistics.
RECURSIVE ChannelLines(_)
ChannelLines(stats) ==
    IF stats = <<>> THEN <<>>
    ELSE LET data == Head(stats)
         IN  LJust(UrlText(data.url), ChannelField) \o <<":">> \o Pad(6)
                 \o LJust(Str(data.total_servers), CountField)
                 \o <<" ", Mark>> \o Pad(6) \o LJust(Str(data.count), CountField)
                 \o <<" ", Mark>> \o Pad(5) \o LJust(Str(data.successful), FlagField)
                 \o <<" ", Mark>> \o Pad(3) \o LJust(Str(data.failed), FlagField)
                 \o <<NL>>
                 \o ChannelLines(Tail(stats))

\* save_updated_data: the text of ExtractionReport.log for the values of a
\* report.
ReportText(log) ==
    SectionTypeNew \o <<NL>> \o TypeLines(log.server_counts_new, KeyOrder) \o <<NL>>
    \o SectionTypeAll \o <<NL>> \o TypeLines(log.server_counts_all, KeyOrder) \o <<NL>>
    \o SectionSummaryNew \o <<NL>>
    \o SummaryLines(log.total_configs_new, log.successful_new, log.failed_new) \o <<NL>>
    \o SectionSummaryAll \o <<NL>>
    \o SummaryLines(log.total_configs_all, log.successful_all, log.failed_all) \o <<NL>>
    \o SectionChannelsWritten \o <<NL>>
    \o ChannelsLegend \o <<NL>>
    \o ChannelLines(log.channel_stats)

\* What read_previous_data returns when there is no report.
NoPrevious ==
    [server_counts_new |-> ZeroCounts, total_configs_new |-> 0, successful_new |-> 0,
     failed_new |-> 0, channel_stats |-> <<>>]

\* A line of the section "=== Server Type Summary New ===".
ReadTypeLine(line, acc) ==
    LET parts == SplitOn(line, <<" ", "Servers:", " ">>)
    IN  IF /\ Len(parts) = 2
           /\ \E k \in Protocols : Lower(parts[1]) = <<k>>
           /\ ParseInt(parts[2]).ok
        THEN LET k == CHOOSE x \in Protocols : Lower(parts[1]) = <<x>>
             IN  [acc EXCEPT !.server_counts_new[k] = ParseInt(parts[2]).val]
        ELSE acc

\* line.startswith("<label>:")
HasLabel(line, label) == Len(line) >= 2 /\ SubSeq(line, 1, 2) = <<label, ":">>

\* The IndexError that ends read_previous_data, and with it the run, when a
\* line has no part at the index the code reads: `except ValueError` does not
\* catch it.
IndexError == [tag |-> "IndexError"]

\* A line of the section "=== Extraction Summary New ===": the number is
\* the second of the parts between ': ' separators.
ReadSummaryLine(line, acc) ==
    LET parts == SplitOn(line, <<":", " ">>)
        labelled == \/ HasLabel(line, "Total Extracted Servers")
                    \/ HasLabel(line, "Successful Channels")
                    \/ HasLabel(line, "Failed Channels")
    IN  IF ~labelled THEN acc
        ELSE IF Len(parts) < 2 THEN IndexError
        ELSE IF ~ParseInt(parts[2]).ok THEN acc
        ELSE IF HasLabel(line, "Total Extracted Servers")
        THEN [acc EXCEPT !.total_configs_new = ParseInt(parts[2]).val]
        ELSE IF HasLabel(line, "Successful Channels")
        THEN [acc EXCEPT !.successful_new = ParseInt(parts[2]).val]
        ELSE [acc EXCEPT !.failed_new = ParseInt(parts[2]).val]

\* The channel a name of the report stands for.
UrlOf(name) ==
    IF \E u \in Range(telegram_urls) : UrlText(u) = name
    THEN CHOOSE u \in Range(telegram_urls) : UrlText(u) = name
    ELSE name

\* "\n".join(unique_channels) + "\n": the text read_telegram_channels writes
\* back to telegram_channels.txt.
RECURSIVE JoinChannels(_)
JoinChannels(unique_channels) ==
    IF unique_channels = <<>> THEN <<>>
    ELSE IF Len(unique_channels) = 1 THEN UrlText(Head(unique_channels))
    ELSE UrlText(Head(unique_channels)) \o <<NL>> \o JoinChannels(Tail(unique_channels))
ChannelsText(unique_channels) == JoinChannels(unique_channels) \o <<NL>>

\* read_telegram_channels: the stripped non-blank lines of the file, each
\* once, sorted.
read_telegram_channels(file) ==
    LET lines == SplitLines(file)
        channels == {Strip(lines[i]) : i \in 1..Len(lines)} \ {<<>>}
        unique_channels == {UrlOf(c) : c \in channels}
    IN  [i \in 1..Cardinality(unique_channels) |->
            CHOOSE c \in unique_channels :
                Cardinality({d \in unique_channels : d < c}) = i - 1]

\* The contents telegram_channels.txt can have before the first run: empty,
\* or every channel on a line of its own, at least once and in any order.
ChannelFiles ==
    {<<>>} \cup {WriteLines([i \in 1..Len(f) |-> UrlText(f[i])]) :
                    f \in {g \in UNION {[1..n -> Channels] :
                                            n \in NumChannels..(NumChannels + 1)} :
                              Range(g) = Channels}}

\* What ExtractionReport.log holds: the values of a report, a text that is
\* not the text of one report, or nothing when there is no file.
EmptyLog == [tag |-> "text", text |-> <<>>]
LogText(log) ==
    IF log.tag = "report" THEN ReportText(log)
    ELSE IF log.tag = "text" THEN log.text
    ELSE <<>>

\* The report file after save_updated_data wrote the report `new` from the
\* start of a file that held `current`.
LogWritten(new, current) ==
    IF current = EmptyLog \/ current = NoLog THEN new
    ELSE LET text == ReportText(new)
             rest == DropChars(LogText(current), Width(text))
         IN  IF rest = <<>> THEN new ELSE [tag |-> "text", text |-> text \o rest]

\* A line of the section "=== Channel Statistics ===": five parts between
\* ': ' separators, the first token of each of the last four read as a number,
\* one after the other.  A part without any token raises IndexError, a token
\* that is no number a ValueError, which is caught and drops the line.
ReadChannelLine(line, acc) ==
    LET parts == SplitOn(line, <<":", " ">>)
        tokens(i) == Tokens(parts[i])
        bad(i) == tokens(i) = <<>> \/ ~ParseInt(tokens(i)[1]).ok
        number(i) == ParseInt(tokens(i)[1]).val
    IN  IF Len(parts) # 5 THEN acc
        ELSE IF \E i \in 2..5 : bad(i)
        THEN LET i == CHOOSE j \in 2..5 : bad(j) /\ \A h \in 2..(j - 1) : ~bad(h)
             IN  IF tokens(i) = <<>> THEN IndexError ELSE acc
        ELSE LET url == UrlOf(Strip(parts[1]))
                 entry == [url |-> url,
                           total_servers |-> number(2),
                           count |-> number(3),
                           successful |-> number(4),
                           failed |-> number(5)]
                 stats == acc.channel_stats
             IN  [acc EXCEPT !.channel_stats =
                     IF \E i \in 1..Len(stats) : stats[i].url = url
                     THEN [i \in 1..Len(stats) |->
                              IF stats[i].url = url THEN entry ELSE stats[i]]
                     ELSE Append(stats, entry)]

\* The loop over the lines of the report in read_previous_data: a line that
\* starts with "===" names the section, any other line is read by the rules
\* of the section it is in.
RECURSIVE ReadLines(_, _, _)
ReadLines(lines, section, acc) ==
    IF lines = <<>> \/ acc = IndexError THEN acc
    ELSE LET line == Strip(Head(lines))
         IN  IF line # <<>> /\ Head(line) = Mark
             THEN ReadLines(Tail(lines), line, acc)
             ELSE ReadLines(Tail(lines), section,
                      IF section = SectionTypeNew THEN ReadTypeLine(line, acc)
                      ELSE IF section = SectionSummaryNew THEN ReadSummaryLine(line, acc)
                      ELSE IF section = SectionChannelsRead THEN ReadChannelLine(line, acc)
                      ELSE acc)

\* read_previous_data: the values parsed from the lines of the last report,
\* zeros and no channel statistics when there is no report, or the
\* IndexError a line raised.
read_previous_data(log) ==
    IF log.tag \in {"report", "text"}
    THEN ReadLines(SplitLines(LogText(log)), <<>>, NoPrevious)
    ELSE NoPrevious

\* ------------------------------------------------------------------- state

VARIABLES
    variant,                \* which script runs: "app.py" or "app.py.py"
    pc,                     \* position of the run
    run,                    \* number of runs started
    url_idx,                \* position in telegram_urls
    channels_file,          \* telegram_channels.txt
    pfile,                  \* ServerByType/<key>.txt
    invalid_links,          \* ServerByType/invalid_links.txt
    region_files,           \* ServerByRegion/<country>.txt
    country_count_file,     \* Log/country_count.log, as its lines
    log_file,               \* Log/ExtractionReport.log
    prev,                   \* what read_previous_data returned
    existing_server_counts,
    existing_servers,
    server_counts_new,
    total_configs_new,
    successful_new,
    failed_new,
    channel_stats,
    configs,                \* result of the last get_v2ray_links
    errors,                 \* error messages printed by the last step
    run_errors,             \* error messages printed so far in the run
    faults,                 \* history: number of appends that raised so far
    reader,                 \* the geoip2 reader: "none", "open", "closed"
    v2ray_configs,
    cfg_idx,
    total_servers,
    successful_servers,
    failed_servers,
    config,                 \* the entry being classified
    ip,                     \* extract_server_ip(config)
    conc                    \* the runs that execute concurrently (SpecConc)

disk == <<channels_file, pfile, invalid_links, region_files, country_count_file,
          log_file>>
extraction == <<prev, existing_server_counts, existing_servers, server_counts_new,
                total_configs_new, successful_new, failed_new, channel_stats,
                configs>>
geo == <<reader, v2ray_configs, cfg_idx, total_servers, successful_servers,
         failed_servers, config, ip>>
printed == <<errors, run_errors, faults>>
vars == <<variant, pc, run, url_idx, disk, extraction, geo, printed, conc>>

Variants == {"app.py", "app.py.py"}
Pending == [tag |-> "pending"]

\* The two processes of app.py that run at the same time in SpecConc, and the
\* globals of one that has not started.
ConcurrentRuns == {"A", "B"}
NotStarted ==
    [pc |-> "start", telegram_urls |-> <<>>, url_idx |-> 1, prev |-> NoPrevious,
     existing_server_counts |-> ZeroCounts,
     existing_servers |-> [k \in Protocols |-> {}],
     server_counts_new |-> ZeroCounts, total_configs_new |-> 0,
     successful_new |-> 0, failed_new |-> 0, channel_stats |-> <<>>,
     configs |-> None, key_idx |-> 1, total_new_servers |-> 0]

\* A process that has exited: its globals are gone.
Exited == [NotStarted EXCEPT !.pc = "end"]

\* The state of a fresh checkout: no file written yet, no run started.
FreshDisk ==
    /\ channels_file \in ChannelFiles
    /\ pfile = [k \in Protocols |-> <<>>]
    /\ invalid_links = <<>>
    /\ region_files = [r \in Regions |-> <<>>]
    /\ country_count_file = <<>>
    /\ log_file = NoLog

NoRun ==
    /\ variant = "app.py"
    /\ pc = "idle"
    /\ run = 0
    /\ url_idx = 1
    /\ prev = NoPrevious
    /\ existing_server_counts = ZeroCounts
    /\ existing_servers = [k \in Protocols |-> {}]
    /\ server_counts_new = ZeroCounts
    /\ total_configs_new = 0
    /\ successful_new = 0
    /\ failed_new = 0
    /\ channel_stats = <<>>
    /\ configs = None
    /\ errors = {}
    /\ run_errors = {}
    /\ faults = 0
    /\ reader = "none"
    /\ v2ray_configs = <<>>
    /\ cfg_idx = 1
    /\ total_servers = 0
    /\ successful_servers = 0
    /\ failed_servers = 0
    /\ conc = [p \in ConcurrentRuns |-> NotStarted]

Init ==
    /\ FreshDisk
    /\ NoRun
    /\ config = <<>>
    /\ ip = Pending

NonEmptyKeys == {k \in Protocols : pfile[k] # <<>>}

\* The start of a run (__main__ up to the channel loop): the channel list is
\* read and written back, then the previous report, the line counts and the
\* existing servers are read.  A channel file that cannot be read gives an
\* empty list and is left as it is.
StartRun ==
    /\ pc \in {"idle", "done", "exit_no_channels", "exit_no_geoip", "crash"}
    /\ run < MaxRuns
    /\ run' = run + 1
    /\ url_idx' = 1
    /\ server_counts_new' = ZeroCounts
    /\ total_configs_new' = 0
    /\ successful_new' = 0
    /\ failed_new' = 0
    /\ configs' = None
    /\ reader' = "none"
    /\ v2ray_configs' = <<>>
    /\ cfg_idx' = 1
    /\ total_servers' = 0
    /\ successful_servers' = 0
    /\ failed_servers' = 0
    /\ config' = <<>>
    /\ ip' = Pending
    /\ UNCHANGED <<pfile, invalid_links, region_files, country_count_file, log_file>>
    /\ \E v \in Variants, readable \in BOOLEAN :
        LET urls == IF readable THEN read_telegram_channels(channels_file) ELSE <<>>
            previous == IF v = "app.py" THEN read_previous_data(log_file)
                        ELSE NoPrevious
        IN
        /\ variant' = v
        /\ channels_file' = IF readable THEN ChannelsText(urls) ELSE channels_file
        /\ IF urls = <<>>
           THEN /\ pc' = "exit_no_channels"
                /\ errors' = {"The list of channels is empty. The program has stopped."}
                /\ prev' = NoPrevious
                /\ existing_server_counts' = ZeroCounts
                /\ existing_servers' = [k \in Protocols |-> {}]
                /\ channel_stats' = <<>>
           ELSE IF previous = IndexError
           THEN /\ pc' = "crash"
                /\ errors' = {"IndexError: list index out of range"}
                /\ prev' = NoPrevious
                /\ existing_server_counts' = ZeroCounts
                /\ existing_servers' = [k \in Protocols |-> {}]
                /\ channel_stats' = <<>>
           ELSE /\ pc' = "extract"
                /\ errors' = {}
                /\ prev' = previous
                /\ channel_stats' = previous.channel_stats
                /\ existing_server_counts' = count_servers_in_files(pfile)
                \* app.py.py never calls load_existing_servers
                /\ existing_servers' = IF v = "app.py" THEN load_existing_servers(pfile)
                                       ELSE [k \in Protocols |-> {}]
    /\ run_errors' = errors'
    /\ UNCHANGED <<faults, conc>>

\* save_updated_data: the values the report holds; the channel statistics
\* are listed by total_servers, largest first.
Report(counts_new, counts_all, total_new, total_all, succ_new, succ_all, fail_new, fail_all, stats) ==
    [tag |-> "report",
     server_counts_new |-> counts_new,
     server_counts_all |-> counts_all,
     total_configs_new |-> total_new,
     total_configs_all |-> total_all,
     successful_new |-> succ_new,
     successful_all |-> succ_all,
     failed_new |-> fail_new,
     failed_all |-> fail_all,
     channel_stats |->
        LET keyed == [i \in 1..Len(stats) |->
                         [count |-> stats[i].total_servers, item |-> stats[i]]]
            sorted == SortDesc(keyed)
        IN  [i \in 1..Len(sorted) |-> sorted[i].item]]

\* server_counts_all of the main loop: the line counts taken at the start of
\* the run plus the new-server counters.
ServerCountsAll(counts_at_start, counts_new) ==
    [k \in Protocols |-> counts_at_start[k] + counts_new[k]]

\* One iteration of the channel loop of __main__: extract_and_update_channel
\* for the next url, then the totals and the report.
ProcessChannel ==
    /\ pc = "extract"
    /\ \E fetch \in FetchOutcomes :
        LET cfg == get_v2ray_links(fetch)
            url == telegram_urls[url_idx]
            outcome == ChannelOutcome(cfg)
            values(k) == IF Fetched(cfg) THEN cfg.by[k] ELSE {}
            new_servers(k) == NewServers(values(k), existing_servers[k])
            filtered(k) == FilteredServers(new_servers(k), existing_servers[k])
            to_write == [k \in Protocols |->
                            IF new_servers(k) = {} THEN {} ELSE filtered(k)]
        IN
        /\ configs' = cfg
        /\ IF Fetched(cfg) /\ variant = "app.py.py"
           THEN \* existing_servers is never assigned in app.py.py: NameError
                /\ pc' = "crash"
                /\ errors' = {"NameError: name 'existing_servers' is not defined"}
                /\ faults' = faults
                /\ UNCHANGED <<url_idx, disk, prev, existing_server_counts,
                               existing_servers, server_counts_new, total_configs_new,
                               successful_new, failed_new, channel_stats>>
           ELSE \E w \in {x \in WriteChoices(1, to_write) :
                              faults + Raised(x) <= MaxFaults} :
                LET active(k) == k \in KeysMerged(w) /\ new_servers(k) # {}
                    wk(k) == w[KeyIndex(k)]
                    total_new_servers ==
                        SumSeq([i \in 1..Len(KeyOrder) |->
                                   IF active(KeyOrder[i])
                                   THEN Cardinality(filtered(KeyOrder[i])) ELSE 0])
                    counts_new == [k \in Protocols |->
                                      IF active(k)
                                      THEN server_counts_new[k] + Cardinality(filtered(k))
                                      ELSE server_counts_new[k]]
                    stats == IF Fetched(cfg)
                             THEN update_channel_stats(channel_stats, url,
                                      total_new_servers, outcome.successful,
                                      outcome.failed)
                             ELSE channel_stats
                    total_new == total_configs_new + total_new_servers
                    succ_new == successful_new + outcome.successful
                    fail_new == failed_new + outcome.failed
                    write_errors == {"Error writing to " \o k \o ".txt" :
                                        k \in {x \in Protocols : active(x) /\ ~wk(x).ok}}
                    \* app.py.py has no save_updated_data
                    saved == variant = "app.py"
                IN
                /\ server_counts_new' = counts_new
                /\ existing_servers' =
                       [k \in Protocols |->
                           IF active(k) THEN existing_servers[k] \cup filtered(k)
                           ELSE existing_servers[k]]
                /\ pfile' = [k \in Protocols |->
                                IF active(k) THEN pfile[k] \o wk(k).out
                                ELSE pfile[k]]
                /\ channel_stats' = stats
                /\ total_configs_new' = total_new
                /\ successful_new' = succ_new
                /\ failed_new' = fail_new
                /\ log_file' =
                       IF saved
                       THEN Report(counts_new,
                                   ServerCountsAll(existing_server_counts, counts_new),
                                   total_new, prev.total_configs_new + total_new,
                                   succ_new, prev.successful_new + succ_new,
                                   fail_new, prev.failed_new + fail_new, stats)
                       ELSE log_file
                /\ errors' = write_errors
                /\ faults' = faults + Raised(w)
                /\ url_idx' = url_idx + 1
                /\ pc' = IF url_idx = Len(telegram_urls) THEN "geo" ELSE "extract"
                /\ UNCHANGED <<channels_file, invalid_links, region_files,
                               country_count_file, prev, existing_server_counts>>
    /\ run_errors' = run_errors \cup errors'
    /\ UNCHANGED <<variant, run, geo>>
    /\ UNCHANGED conc

\* ------------------------------------------------------ region processing

\* get_v2ray_links_from_folder: the stripped non-empty lines of every protocol
\* file, in the order glob lists the files.  (invalid_links.txt is excluded
\* by name, empty files add nothing.)
RECURSIVE get_v2ray_links_from_folder(_, _)
get_v2ray_links_from_folder(files, order) ==
    IF order = <<>> THEN <<>>
    ELSE LET lines == SplitLines(files[Head(order)])
             links == SelectSeq([i \in 1..Len(lines) |-> Strip(lines[i])],
                                LAMBDA l : l # <<>>)
         IN  links \o get_v2ray_links_from_folder(files, Tail(order))

\* The ordered dict country_count of update_country_count.
DictHas(d, name) == \E i \in 1..Len(d) : d[i].name = name
DictGet(d, name, default) ==
    IF DictHas(d, name)
    THEN (d[CHOOSE i \in 1..Len(d) : d[i].name = name]).count
    ELSE default
DictSet(d, name, count) ==
    IF DictHas(d, name)
    THEN [i \in 1..Len(d) |->
            IF d[i].name = name THEN [name |-> name, count |-> count] ELSE d[i]]
    ELSE Append(d, [name |-> name, count |-> count])

\* A line "<name>: <count>" of country_count.log, and its separator line.
CountLine(name, count) == [kv |-> TRUE, name |-> name, count |-> count]
SeparatorLine == [kv |-> FALSE, name |-> "===== Countries =====", count |-> 0]

\* The loop over lines[2:] of update_country_count: every line that splits
\* at ': ' into two parts sets country_count[parts[0]] = int(parts[1]).
RECURSIVE LoadCountryCount(_, _)
LoadCountryCount(lines, d) ==
    IF lines = <<>> THEN d
    ELSE LoadCountryCount(Tail(lines),
            IF Head(lines).kv THEN DictSet(d, Head(lines).name, Head(lines).count)
            ELSE d)

\* update_country_count(country): the new value of successful_servers and
\* the lines written to country_count.log.
update_country_count(file, country, total, failed) ==
    LET loaded == IF file # <<>>
                  THEN LoadCountryCount(SubSeq(file, 3, Len(file)), <<>>)
                  ELSE <<>>
        country_count == DictSet(loaded, country, DictGet(loaded, country, 0) + 1)
        sorted_country_count == SortDesc(country_count)
        successful == SumSeq([i \in 1..Len(sorted_country_count) |->
                                 sorted_country_count[i].count])
    IN  [successful |-> successful,
         lines |-> <<CountLine("All servers", total),
                     CountLine("Successful", successful),
                     CountLine("Failed", failed),
                     SeparatorLine>>
                   \o [i \in 1..Len(sorted_country_count) |->
                          CountLine(sorted_country_count[i].name,
                                    sorted_country_count[i].count)]]

\* The text a region file gains for one config.
RegionAppend(text, cfg) == text \o cfg \o <<NL>>

\* The outcomes of f.write(config + '\n') on a region file: the whole line
\* is appended, or an error is raised after the characters that fitted.
RegionWrites(cfg) ==
    {[ok |-> TRUE, out |-> cfg \o <<NL>>]}
    \cup {[ok |-> FALSE, out |-> t] : t \in Truncations(cfg \o <<NL>>)}

\* __main__ after the channel loop: the GeoLite2 reader is opened and the
\* stored links are read back.
OpenReader ==
    /\ pc = "geo"
    /\ \E opened \in BOOLEAN :
        IF ~opened
        THEN /\ pc' = "exit_no_geoip"
             /\ errors' = {"Error opening GeoLite2 database"}
             /\ UNCHANGED geo
        ELSE IF variant = "app.py.py"
        THEN \* get_v2ray_links_from_folder is not defined in app.py.py
             /\ pc' = "crash"
             /\ reader' = "open"
             /\ errors' = {"NameError: name 'get_v2ray_links_from_folder' is not defined"}
             /\ UNCHANGED <<v2ray_configs, cfg_idx, total_servers, successful_servers,
                            failed_servers, config, ip>>
        ELSE \E order \in Perms(NonEmptyKeys) :
             LET links == get_v2ray_links_from_folder(pfile, order)
             IN  /\ reader' = "open"
                 /\ v2ray_configs' = links
                 /\ total_servers' = Len(links)
                 /\ cfg_idx' = 1
                 /\ pc' = IF links # <<>> THEN "classify" ELSE "close"
                 /\ errors' = {}
                 /\ UNCHANGED <<successful_servers, failed_servers, config, ip>>
    /\ run_errors' = run_errors \cup errors'
    /\ UNCHANGED <<variant, run, url_idx, disk, extraction, faults>>
    /\ UNCHANGED conc

\* One iteration of the loop of save_configs_by_region.
ClassifyEntry ==
    /\ pc = "classify"
    /\ cfg_idx <= Len(v2ray_configs)
    /\ LET cfg == v2ray_configs[cfg_idx]
           found == extract_server_ip(cfg)
           region == IF Truthy(found) THEN get_country_from_ip(found.val) ELSE "Unknown"
       IN
       /\ config' = cfg
       /\ ip' = found
       /\ IF Truthy(found) /\ region # "Unknown"
          THEN \E w \in {x \in RegionWrites(cfg) : x.ok \/ faults < MaxFaults} :
               IF w.ok
               THEN LET upd == update_country_count(country_count_file, region,
                                   total_servers, failed_servers)
                    IN  /\ region_files' =
                              [region_files EXCEPT ![region] = RegionAppend(@, cfg)]
                        /\ successful_servers' = upd.successful
                        /\ country_count_file' = upd.lines
                        /\ errors' = {}
                        /\ UNCHANGED <<failed_servers, invalid_links>>
               ELSE /\ region_files' = [region_files EXCEPT ![region] = @ \o w.out]
                    /\ errors' = {"Error writing to region file"}
                    /\ UNCHANGED <<successful_servers, country_count_file,
                                   failed_servers, invalid_links>>
          ELSE IF Truthy(found)
          THEN /\ failed_servers' = failed_servers + 1
               /\ errors' = {}
               /\ UNCHANGED <<region_files, successful_servers, country_count_file,
                              invalid_links>>
          ELSE /\ failed_servers' = failed_servers + 1
               /\ invalid_links' = invalid_links \o cfg \o <<NL>>
               /\ errors' = {}
               /\ UNCHANGED <<region_files, successful_servers, country_count_file>>
    /\ cfg_idx' = cfg_idx + 1
    /\ pc' = IF cfg_idx = Len(v2ray_configs) THEN "close" ELSE "classify"
    /\ run_errors' = run_errors \cup errors'
    /\ faults' = faults + Cardinality(errors')
    /\ UNCHANGED <<variant, run, url_idx, channels_file, pfile, log_file, extraction,
                   reader, v2ray_configs, total_servers>>
    /\ UNCHANGED conc

\* reader.close() at the end of __main__.
CloseReader ==
    /\ pc = "close"
    /\ reader' = "closed"
    /\ pc' = "done"
    /\ errors' = {}
    /\ UNCHANGED <<run_errors, faults>>
    /\ UNCHANGED <<variant, run, url_idx, disk, extraction, v2ray_configs, cfg_idx,
                   total_servers, successful_servers, failed_servers, config, ip>>
    /\ UNCHANGED conc

Next == StartRun \/ ProcessChannel \/ OpenReader \/ ClassifyEntry \/ CloseReader

Spec == Init /\ [][Next]_vars

\* ------------------------------------------- extract_server_ip on its own

\* The characters extract_server_ip tells apart, and the entry strings of at
\* most MaxLen of them.
IpChars == {"@", ":", "h"}
RECURSIVE StringsUpTo(_)
StringsUpTo(n) ==
    IF n = 0 THEN {<<>>}
    ELSE LET shorter == StringsUpTo(n - 1)
         IN  shorter \cup {Append(t, c) : t \in {x \in shorter : Len(x) = n - 1},
                                         c \in IpChars}

InitIp ==
    /\ FreshDisk
    /\ NoRun
    /\ config \in StringsUpTo(MaxLen)
    /\ ip = Pending

\* ip = extract_server_ip(config)
ExtractIp ==
    /\ pc = "idle"
    /\ run = 0
    /\ ip = Pending
    /\ ip' = extract_server_ip(config)
    /\ UNCHANGED <<variant, pc, run, url_idx, disk, extraction, printed, reader,
                   v2ray_configs, cfg_idx, total_servers, successful_servers,
                   failed_servers, config>>
    /\ UNCHANGED conc

NextIp == ExtractIp

SpecIp == InitIp /\ [][NextIp]_vars

\* ------------------------------------------------------- concurrent runs

\* Two processes of app.py run at the same time on the same
\* telegram_channels.txt and the same ServerByType and Log folders, each with
\* its own globals conc[p]; both are followed through the channel loop.  Every
\* step is one stretch of code with one access to a shared file: a read of a
\* whole file, the open that empties a file, or the write at its close.  The
\* channel list can be opened or not; the appends to the protocol files
\* succeed.

\* read_telegram_channels, lines 181-184: the channels are read.  When the
\* file cannot be opened or read (lines 192-197) the list is empty, nothing is
\* written and the process exits (lines 367-369).
ConcReadChannels(p) ==
    /\ conc[p].pc = "start"
    /\ \E readable \in BOOLEAN :
          conc' = IF readable
                  THEN [conc EXCEPT
                           ![p].telegram_urls = read_telegram_channels(channels_file),
                           ![p].pc = "channels_open"]
                  ELSE [conc EXCEPT ![p] = Exited]
    /\ UNCHANGED <<variant, pc, run, url_idx, disk, extraction, geo, printed>>

\* read_telegram_channels, line 186: the open that empties the file.
ConcOpenChannels(p) ==
    /\ conc[p].pc = "channels_open"
    /\ channels_file' = <<>>
    /\ conc' = [conc EXCEPT ![p].pc = "channels_write"]
    /\ UNCHANGED <<variant, pc, run, url_idx, pfile, invalid_links, region_files,
                   country_count_file, log_file, extraction, geo, printed>>

\* read_telegram_channels, lines 186-187, and lines 367-369: the list is
\* written back; the process exits when its list is empty.
ConcWriteChannels(p) ==
    /\ conc[p].pc = "channels_write"
    /\ channels_file' = WrittenOver(ChannelsText(conc[p].telegram_urls), channels_file)
    /\ conc' = IF conc[p].telegram_urls = <<>>
               THEN [conc EXCEPT ![p] = Exited]
               ELSE [conc EXCEPT ![p].pc = "previous"]
    /\ UNCHANGED <<variant, pc, run, url_idx, pfile, invalid_links, region_files,
                   country_count_file, log_file, extraction, geo, printed>>

\* read_previous_data (line 371): the last report is read; an IndexError ends
\* the process.
ConcReadPrevious(p) ==
    /\ conc[p].pc = "previous"
    /\ LET previous == read_previous_data(log_file)
       IN  conc' = IF previous = IndexError
                   THEN [conc EXCEPT ![p] = Exited]
                   ELSE [conc EXCEPT ![p].prev = previous,
                                     ![p].channel_stats = previous.channel_stats,
                                     ![p].key_idx = 1,
                                     ![p].pc = "count"]
    /\ UNCHANGED <<variant, pc, run, url_idx, disk, extraction, geo, printed>>

\* One iteration of the loop of count_servers_in_files (line 372): the lines
\* of one protocol file are counted.
ConcCount(p) ==
    /\ conc[p].pc = "count"
    /\ LET i == conc[p].key_idx
           key == KeyOrder[i]
       IN  conc' = [conc EXCEPT
                       ![p].existing_server_counts[key] =
                           count_servers_in_files(pfile)[key],
                       ![p].key_idx = IF i = Len(KeyOrder) THEN 1 ELSE i + 1,
                       ![p].pc = IF i = Len(KeyOrder) THEN "load" ELSE "count"]
    /\ UNCHANGED <<variant, pc, run, url_idx, disk, extraction, geo, printed>>

\* One iteration of the loop of load_existing_servers (line 377): the lines of
\* one protocol file are read.
ConcLoad(p) ==
    /\ conc[p].pc = "load"
    /\ LET i == conc[p].key_idx
           key == KeyOrder[i]
       IN  conc' = [conc EXCEPT
                       ![p].existing_servers[key] = load_existing_servers(pfile)[key],
                       ![p].key_idx = IF i = Len(KeyOrder) THEN 1 ELSE i + 1,
                       ![p].pc = IF i = Len(KeyOrder) THEN "fetch" ELSE "load"]
    /\ UNCHANGED <<variant, pc, run, url_idx, disk, extraction, geo, printed>>

\* The positions of KeyOrder from position i on whose key has new servers: the
\* iterations of the loop over configs.items() that do not `continue`.
KeysWithNew(r, i) ==
    {j \in i..Len(KeyOrder) :
        NewServers(r.configs.by[KeyOrder[j]], r.existing_servers[KeyOrder[j]]) # {}}

\* After iteration i - 1 of the loop over configs.items(): in the loop when an
\* iteration that writes is left, at the report otherwise.
AfterKey(r, i) == IF KeysWithNew(r, i) # {} THEN "keys" ELSE "report"

\* configs = get_v2ray_links(url) of extract_and_update_channel.
ConcFetch(p) ==
    /\ conc[p].pc = "fetch"
    /\ \E fetch \in FetchOutcomes :
        LET cfg == get_v2ray_links(fetch)
            r == [conc[p] EXCEPT !.configs = cfg, !.key_idx = 1,
                                 !.total_new_servers = 0]
        IN  conc' = [conc EXCEPT ![p] =
                        [r EXCEPT !.pc = IF Fetched(cfg) THEN AfterKey(r, 1)
                                         ELSE "report"]]
    /\ UNCHANGED <<variant, pc, run, url_idx, disk, extraction, geo, printed>>

\* The next iteration of the loop over configs.items() that finds new
\* servers (lines 228-248): they are counted, added to existing_servers and
\* appended to the protocol file.
ConcKey(p) ==
    /\ conc[p].pc = "keys"
    /\ LET r == conc[p]
           i == CHOOSE j \in KeysWithNew(r, r.key_idx) :
                    \A h \in KeysWithNew(r, r.key_idx) : j <= h
           key == KeyOrder[i]
           new_servers == NewServers(r.configs.by[key], r.existing_servers[key])
           filtered_servers == FilteredServers(new_servers, r.existing_servers[key])
           new_servers_count == Cardinality(filtered_servers)
       IN  \E w \in {x \in KeyWrites(filtered_servers) : x.ok} :
             LET q == [r EXCEPT
                          !.server_counts_new[key] = @ + new_servers_count,
                          !.total_new_servers = @ + new_servers_count,
                          !.existing_servers[key] = @ \cup filtered_servers,
                          !.key_idx = i + 1]
             IN  /\ pfile' = [pfile EXCEPT ![key] = @ \o w.out]
                 /\ conc' = [conc EXCEPT ![p] = [q EXCEPT !.pc = AfterKey(q, i + 1)]]
    /\ UNCHANGED <<variant, pc, run, url_idx, channels_file, invalid_links,
                   region_files, country_count_file, log_file, extraction, geo,
                   printed>>

\* The end of extract_and_update_channel and the loop body of __main__ up to
\* the open of the report in save_updated_data (lines 250-256, 385-393 and
\* line 96): the channel statistics and the totals are updated, the locals of
\* extract_and_update_channel are gone and the report file is emptied.
ConcOpenReport(p) ==
    /\ conc[p].pc = "report"
    /\ LET r == conc[p]
           outcome == ChannelOutcome(r.configs)
           stats == IF Fetched(r.configs)
                    THEN update_channel_stats(r.channel_stats,
                             r.telegram_urls[r.url_idx],
                             r.total_new_servers, outcome.successful, outcome.failed)
                    ELSE r.channel_stats
       IN  conc' = [conc EXCEPT ![p] =
                       [r EXCEPT !.channel_stats = stats,
                                 !.total_configs_new = @ + r.total_new_servers,
                                 !.successful_new = @ + outcome.successful,
                                 !.failed_new = @ + outcome.failed,
                                 !.configs = None,
                                 !.key_idx = 1,
                                 !.total_new_servers = 0,
                                 !.pc = "report_write"]]
    /\ log_file' = EmptyLog
    /\ UNCHANGED <<variant, pc, run, url_idx, channels_file, pfile, invalid_links,
                   region_files, country_count_file, extraction, geo, printed>>

\* The close of the report in save_updated_data (lines 96-125): the report is
\* written from the start of the file; the loop goes on to the next channel,
\* and after the last one the process is followed no further.
ConcWriteReport(p) ==
    /\ conc[p].pc = "report_write"
    /\ LET r == conc[p]
       IN  /\ log_file' =
                  LogWritten(
                      Report(r.server_counts_new,
                             ServerCountsAll(r.existing_server_counts,
                                             r.server_counts_new),
                             r.total_configs_new,
                             r.prev.total_configs_new + r.total_configs_new,
                             r.successful_new, r.prev.successful_new + r.successful_new,
                             r.failed_new, r.prev.failed_new + r.failed_new,
                             r.channel_stats),
                      log_file)
           /\ conc' = IF r.url_idx = Len(r.telegram_urls)
                      THEN [conc EXCEPT ![p] = Exited]
                      ELSE [conc EXCEPT ![p].url_idx = @ + 1, ![p].pc = "fetch"]
    /\ UNCHANGED <<variant, pc, run, url_idx, channels_file, pfile, invalid_links,
                   region_files, country_count_file, extraction, geo, printed>>

NextConc ==
    \E p \in ConcurrentRuns :
        \/ ConcReadChannels(p) \/ ConcOpenChannels(p) \/ ConcWriteChannels(p)
        \/ ConcReadPrevious(p) \/ ConcCount(p) \/ ConcLoad(p)
        \/ ConcFetch(p) \/ ConcKey(p)
        \/ ConcOpenReport(p) \/ ConcWriteReport(p)

SpecConc == Init /\ [][NextConc]_vars

\* ------------------------------------------------------------------ claims

Lines(k) == SplitLines(pfile[k])
NoRepeat(s) == \A i, j \in 1..Len(s) : i # j => s[i] # s[j]
WriteError(k) == "Error writing to " \o k \o ".txt"

\* C1: after any number of consecutive runs over any fetched pages, no
\* protocol file ServerByType/<protocol>.txt contains a repeated line (here:
\* as long as no append raised an error).
C1_NoRepeatedLine == faults = 0 => \A k \in Protocols : NoRepeat(Lines(k))

\* C2: when classification has completed (here: no append having raised an
\* error), successful_servers + failed_servers = total_servers, and the
\* 'Successful' and 'Failed' values last written to country_count.log sum to
\* its 'All servers' value.
C2_GeoCountsAddUp ==
    (pc = "done" /\ run_errors = {} /\ faults = 0) =>
        /\ successful_servers + failed_servers = total_servers
        /\ country_count_file # <<>> =>
              country_count_file[2].count + country_count_file[3].count
                  = country_count_file[1].count

\* C3: processing a page whose entries the protocol files already hold,
\* line for line, adds no entry for any protocol and leaves every protocol
\* file as it was (here: no append having raised an error).
C3_SecondMergeWritesNothing ==
    [][ (/\ pc = "extract"
         /\ faults' = 0
         /\ url_idx' = url_idx + 1
         /\ Fetched(configs')
         /\ \A k \in Protocols : \A t \in configs'.by[k] :
               Range(SplitLines(t)) \subseteq Range(Lines(k)))
        => (pfile' = pfile /\ server_counts_new' = server_counts_new) ]_vars

\* C4: once the channel list has been read the run never aborts: it ends
\* only by reaching its normal end.
C4_NoAbortAfterChannelList == pc \notin {"exit_no_geoip", "crash"}

\* C5: each classified entry is either appended to exactly one region file
\* with the failed count unchanged, or counted as failed (by exactly 1) with
\* no region file changed; and the protocol files keep the entry.
C5_EntryAccountedOnce ==
    [][ pc = "classify" =>
          /\ pfile' = pfile
          /\ \/ /\ failed_servers' = failed_servers
                /\ \E r \in Regions :
                      /\ region_files'[r] = region_files[r] \o config' \o <<NL>>
                      /\ \A q \in Regions \ {r} : region_files'[q] = region_files[q]
             \/ /\ failed_servers' = failed_servers + 1
                /\ region_files' = region_files ]_vars

\* C6: a channel whose fetch fails changes no protocol file, no existing
\* set and no per-protocol new count, raises the failed-channel count by
\* exactly 1, and the run goes on with the next channel of the list.
C6_FailedFetchAddsNothing ==
    [][ (pc = "extract" /\ ~Fetched(configs')) =>
          /\ pfile' = pfile
          /\ existing_servers' = existing_servers
          /\ server_counts_new' = server_counts_new
          /\ total_configs_new' = total_configs_new
          /\ failed_new' = failed_new + 1
          /\ successful_new' = successful_new
          /\ url_idx' = url_idx + 1
          /\ pc' = IF url_idx < Len(telegram_urls) THEN "extract" ELSE "geo" ]_vars

\* A failed fetch on the first channel of a run that started with stored
\* entries, the run being about to process the second channel.
C6_Witness ==
    /\ pc = "extract"
    /\ url_idx = 2
    /\ configs = None
    /\ failed_new = 1
    /\ NonEmptyKeys # {}

\* The stored lines that classify to region r.
ResolvesTo(line, r) ==
    LET found == extract_server_ip(line)
    IN  Truthy(found) /\ get_country_from_ip(found.val) = r
StoredLinks == UNION {Range(get_v2ray_links_from_folder(pfile, <<k>>)) : k \in Protocols}

\* C7: after a run (here: no append having raised an error), each region file
\* holds exactly the entries of the current protocol files that resolve to
\* its region, each once, whatever the region files held before the run.
C7_RegionFilesRecomputed ==
    (pc = "done" /\ run_errors = {} /\ faults = 0) =>
        \A r \in Regions :
            /\ NoRepeat(SplitLines(region_files[r]))
            /\ Range(SplitLines(region_files[r]))
                   = {l \in StoredLinks : ResolvesTo(l, r)}

\* C8: the 'All' count the extraction report holds for a protocol is the
\* number of lines of that protocol's file.
C8_ReportCountsFileLines ==
    log_file # NoLog =>
        \A k \in Protocols : log_file.server_counts_all[k] = Len(Lines(k))

\* The token between the last '@' of a string and the first ':' after it;
\* no IP when there is no '@' or no ':' after the last one.
ClaimedIp(cfg) ==
    IF \A i \in 1..Len(cfg) : cfg[i] # "@"
    THEN None
    ELSE LET last_at == CHOOSE i \in 1..Len(cfg) :
                            cfg[i] = "@" /\ \A j \in (i + 1)..Len(cfg) : cfg[j] # "@"
             rest == SubSeq(cfg, last_at + 1, Len(cfg))
         IN  IF \A i \in 1..Len(rest) : rest[i] # ":"
             THEN None
             ELSE Some(Split(rest, ":")[1])

\* C9: extract_server_ip returns the token between the last '@' and the
\* first ':' after it, and no IP exactly when that token does not exist.
C9_TokenAfterLastAt == ip # Pending => ip = ClaimedIp(config)

\* C10: in a channel step every protocol whose write raised no error has its
\* new entries appended to its file, whatever happened to the writes of the
\* other protocols, and the run goes on with the next channel.
C10_MergesIndependent ==
    [][ (pc = "extract" /\ variant = "app.py" /\ Fetched(configs')) =>
          /\ \A k \in Protocols :
                WriteError(k) \notin errors' =>
                    \E p \in Perms(configs'.by[k] \ existing_servers[k]) :
                        pfile'[k] = pfile[k] \o WriteLines(p)
          /\ url_idx' = url_idx + 1
          /\ pc' = IF url_idx < Len(telegram_urls) THEN "extract" ELSE "geo" ]_vars

\* The first channel of the first run: the write to one protocol's file
\* failed, another protocol's file received its entry, and the run is about
\* to process the second channel.
C10_Witness ==
    /\ run = 1
    /\ pc = "extract"
    /\ url_idx = 2
    /\ \E k1, k2 \in Protocols :
          /\ KeyIndex(k1) < KeyIndex(k2)
          /\ errors = {WriteError(k1)}
          /\ pfile[k1] = <<>>
          /\ pfile[k2] # <<>>

\* The text old is the end of the text new.
IsSuffix(old, new) ==
    /\ Len(old) <= Len(new)
    /\ SubSeq(new, Len(new) - Len(old) + 1, Len(new)) = old

\* C11: after a channel step that adds entries to a protocol file, the file
\* lists the added entries first: what the file held before the step comes
\* after everything the step added.
C11_NewEntriesFirst ==
    [][ pc = "extract" =>
          \A k \in Protocols :
              pfile'[k] # pfile[k] => IsSuffix(pfile[k], pfile'[k]) ]_vars

\* The positions at which the process has ended.
Ended == {"done", "crash", "exit_no_geoip", "exit_no_channels"}

\* C12: when the process has ended, a GeoLite2 reader that was opened has
\* been closed.
C12_ReaderClosedAtExit == pc \in Ended => reader # "open"

\* C13: every processed channel adds 1 to exactly one of successful_new and
\* failed_new, so that the two sum to the number of channels processed; the
\* channel counts as failed exactly when its fetch failed, and a fetched page
\* without any matching entry counts as successful with no new entry.
C13_EachChannelCountedOnce ==
    [][ /\ successful_new' + failed_new' = url_idx' - 1
        /\ (pc = "extract" /\ url_idx' = url_idx + 1) =>
              /\ configs' = None =>
                    /\ failed_new' = failed_new + 1
                    /\ successful_new' = successful_new
              /\ configs' # None =>
                    /\ successful_new' = successful_new + 1
                    /\ failed_new' = failed_new
              /\ (configs' # None /\ \A k \in Protocols : configs'.by[k] = {}) =>
                    total_configs_new' = total_configs_new ]_vars

\* The second channel of a run has been processed: the fetch of the first
\* channel failed, the page of the second was fetched, held no proxy link
\* and was counted successful with no new entry.
C13_Witness ==
    /\ run = 1
    /\ variant = "app.py"
    /\ pc = "geo"
    /\ configs # None
    /\ \A k \in Protocols : configs.by[k] = {}
    /\ successful_new = 1
    /\ failed_new = 1
    /\ total_configs_new = 0

\* C15: what read_previous_data returned at the start of a run of app.py is
\* what the report it read holds: the per-protocol 'New' counts, the 'New'
\* total, successful and failed values and the statistics of every channel,
\* and channel_stats starts from those statistics.
C15_ReportRoundTrips ==
    (variant = "app.py" /\ pc = "extract" /\ url_idx = 1 /\ log_file # NoLog) =>
        /\ prev.server_counts_new = log_file.server_counts_new
        /\ prev.total_configs_new = log_file.total_configs_new
        /\ prev.successful_new = log_file.successful_new
        /\ prev.failed_new = log_file.failed_new
        /\ Range(prev.channel_stats) = Range(log_file.channel_stats)
        /\ channel_stats = prev.channel_stats

\* The number of lines of a file that are the line x.
Occurrences(lines, x) == Cardinality({i \in 1..Len(lines) : lines[i] = x})

\* C14: when two runs execute at the same time on the same ServerByType
\* folder, an entry of one line that both extract is in its protocol file at
\* most once, whatever the order of the runs' reads and appends.
C14_ConcurrentAppendOnce ==
    \A k \in Protocols : \A t \in TagTexts :
        Len(SplitLines(t)) = 1 => Occurrences(Lines(k), t) <= 1

====
